---- MODULE Spec2Model ----
(***************************************************************************)
(* A model of aiClient.py (PyroAI): the persisted settings (load_settings, *)
(* save_settings, SettingsDialog.accept, PyroAI.change_font) and the chat  *)
(* bridge (Worker.run on its own thread, PyroAI.send_message and           *)
(* PyroAI.clear_chat on the GUI thread). The widgets that only render      *)
(* (transcript, progress bar, style sheet, tray icon) carry no state here. *)
(***************************************************************************)
EXTENDS Integers, Sequences, FiniteSets, TLC

VARIABLES
    store,              \* the content of pyroai_settings.json
    DEFAULT_SETTINGS,   \* the module-level dict DEFAULT_SETTINGS (a mutable object)
    loaded,             \* the dict object json.load built in PyroAI.__init__, if any
    settings,           \* PyroAI.settings: a REFERENCE to one of the two dicts
    appPc,              \* where the GUI thread is: start-up, running, crashed
    bootStore,          \* history: the store as the last load_settings() read it
    loadResult,         \* history: what the last load_settings() call did
    workers,            \* every Worker created so far, in creation order
    worker,             \* PyroAI.worker: index into workers, 0 for None
    quitRequested,      \* QApplication.quit() was called
    sessionsCreated,    \* history: number of start_chat() calls so far
    resetSeen,          \* history: clear_chat() was called
    overlapSeen         \* history: a send began while another was running

settingsVars == <<store, DEFAULT_SETTINGS, loaded, settings, appPc, bootStore,
                  loadResult>>
chatVars == <<workers, worker, quitRequested, sessionsCreated, resetSeen,
              overlapSeen>>
vars == <<store, DEFAULT_SETTINGS, loaded, settings, appPc, bootStore,
          loadResult, workers, worker, quitRequested, sessionsCreated,
          resetSeen, overlapSeen>>

----------------------------------------------------------------------------
(* Constants of the program *)

DEFAULT_API_KEY_PLACEHOLDER == "YOUR_GEMINI_API_KEY"

Keys ==
    {"apiKey", "theme", "fontSize", "fontFamily", "autoSave", "autoSaveInterval"}

\* The value DEFAULT_SETTINGS is given at import time.
DefaultSettingsInit ==
    [apiKey |-> DEFAULT_API_KEY_PLACEHOLDER,
     theme |-> "dark",
     fontSize |-> 12,
     fontFamily |-> "Courier New",
     autoSave |-> FALSE,
     autoSaveInterval |-> 5]

\* Python's None, where a reference or a value may be missing.
None == "None"

----------------------------------------------------------------------------
(* Dicts: functions from keys to values *)

EmptyDict == [k \in {} |-> None]

\* d[k] = v on a Python dict: adds the key when it is absent.
SetItem(d, k, v) ==
    [x \in (DOMAIN d) \cup {k} |-> IF x = k THEN v ELSE d[x]]

\* Backfill as "settings.update(DEFAULT_SETTINGS)" would do it: the defaults
\* win over the stored values.
BackfillOverwrite(s, defaults) ==
    [k \in (DOMAIN s) \cup (DOMAIN defaults) |->
        IF k \in DOMAIN defaults THEN defaults[k] ELSE s[k]]

\* The loop of load_settings: "if key not in settings: settings[key] = value".
Backfill(s, defaults) ==
    [k \in (DOMAIN s) \cup (DOMAIN defaults) |->
        IF k \in DOMAIN s THEN s[k] ELSE defaults[k]]

----------------------------------------------------------------------------
(* The settings file *)

AbsentStore == [kind |-> "absent", data |-> EmptyDict]
CorruptStore == [kind |-> "corrupt", data |-> EmptyDict]
\* Valid JSON that is not an object, such as [].
NonObjectStore == [kind |-> "nonobject", data |-> EmptyDict]
ObjectStore(d) == [kind |-> "object", data |-> d]

\* A value a user may have stored for each key, different from the default.
StoredValue ==
    [apiKey |-> "k1",
     theme |-> "light",
     fontSize |-> 14,
     fontFamily |-> "Arial",
     autoSave |-> TRUE,
     autoSaveInterval |-> 10]

\* Every settings file the model starts from: absent, unparsable, a JSON
\* array, and a JSON object holding any subset of the default keys.
Stores ==
    {AbsentStore, CorruptStore, NonObjectStore}
        \cup {ObjectStore([k \in S |-> StoredValue[k]]) : S \in SUBSET Keys}

\* load_settings with "except Exception" in place of "except
\* FileNotFoundError": every failure degrades to the defaults.
load_settings_swallow(st, defaults) ==
    IF st.kind = "object"
    THEN [raised |-> None, ref |-> "loaded", value |-> Backfill(st.data, defaults)]
    ELSE [raised |-> None, ref |-> "DEFAULT_SETTINGS", value |-> defaults]

\* load_settings(): the exception it raises (None when it returns), the
\* object it returns (a reference) and that object's value.
load_settings(st, defaults) ==
    CASE st.kind = "absent" ->
            \* except FileNotFoundError: return DEFAULT_SETTINGS (the object itself)
            [raised |-> None, ref |-> "DEFAULT_SETTINGS", value |-> defaults]
      [] st.kind = "corrupt" ->
            \* json.load raises json.JSONDecodeError, which nothing catches
            [raised |-> "JSONDecodeError", ref |-> None, value |-> EmptyDict]
      [] st.kind = "nonobject" ->
            \* settings[key] = value on a list raises TypeError
            [raised |-> "TypeError", ref |-> None, value |-> EmptyDict]
      [] st.kind = "object" ->
            [raised |-> None, ref |-> "loaded", value |-> Backfill(st.data, defaults)]

\* save_settings(settings): json.dump overwrites the file with the dict.
save_settings(d) == ObjectStore(d)

----------------------------------------------------------------------------
(* The object PyroAI.settings refers to *)

Deref(ref, defaults, obj) ==
    IF ref = "DEFAULT_SETTINGS" THEN defaults ELSE obj

CurrentSettings == Deref(settings, DEFAULT_SETTINGS, loaded)

\* Assign through the reference: the dict it names is the one that changes.
WriteSettings(d) ==
    IF settings = "DEFAULT_SETTINGS"
    THEN DEFAULT_SETTINGS' = d /\ UNCHANGED loaded
    ELSE loaded' = d /\ UNCHANGED DEFAULT_SETTINGS

\* dict.get(key, default)
Get(d, k, dflt) == IF k \in DOMAIN d THEN d[k] ELSE dflt

----------------------------------------------------------------------------
(* Start-up: the entry point loads the settings twice *)

\* Line 357: settings = load_settings(); the result is never used.
MainLoad ==
    /\ appPc = "main_load"
    /\ LET r == load_settings(store, DEFAULT_SETTINGS)
       IN  /\ loadResult' = r
           /\ bootStore' = store
           /\ appPc' = IF r.raised = None THEN "init_load" ELSE "crashed"
    /\ UNCHANGED <<store, DEFAULT_SETTINGS, loaded, settings>>
    /\ UNCHANGED chatVars

\* Line 136, PyroAI.__init__: self.settings = load_settings().
InitLoad ==
    /\ appPc = "init_load"
    /\ LET r == load_settings(store, DEFAULT_SETTINGS)
       IN  /\ loadResult' = r
           /\ bootStore' = store
           /\ IF r.raised = None
              THEN /\ settings' = r.ref
                   /\ loaded' = IF r.ref = "loaded" THEN r.value ELSE loaded
                   /\ appPc' = "running"
              ELSE /\ appPc' = "crashed"
                   /\ UNCHANGED <<settings, loaded>>
    /\ UNCHANGED <<store, DEFAULT_SETTINGS>>
    /\ UNCHANGED chatVars

----------------------------------------------------------------------------
(* Text conversions the handlers use, on the texts the model enters *)

\* str.lower() on the combo texts and on the chat inputs of the model.
Lower(t) ==
    CASE t = "Light" -> "light"
      [] t = "Dark" -> "dark"
      [] t = "Quit" -> "quit"
      [] t = "EXIT" -> "exit"
      [] OTHER -> t

\* str.capitalize() on the theme names.
Capitalize(t) ==
    CASE t = "light" -> "Light"
      [] t = "dark" -> "Dark"
      [] OTHER -> t

\* int(text): ok is FALSE where Python raises ValueError.
ParseInt(t) ==
    CASE t = "5" -> [ok |-> TRUE, value |-> 5]
      [] t = "10" -> [ok |-> TRUE, value |-> 10]
      [] t = " 15 " -> [ok |-> TRUE, value |-> 15]
      [] OTHER -> [ok |-> FALSE, value |-> 0]

\* str(n) on the intervals the model can hold.
Str(n) ==
    CASE n = 5 -> "5"
      [] n = 10 -> "10"
      [] n = 15 -> "15"
      [] OTHER -> "?"

----------------------------------------------------------------------------
(* The settings dialog *)

ThemeItems == {"Light", "Dark"}
AutoSaveItems == {"Enabled", "Disabled"}

\* SettingsDialog.__init__: what the four inputs show when the dialog opens.
\* setCurrentText leaves the first item selected when the text is no item.
DialogApiKeyText(d) == Get(d, "apiKey", "")
DialogThemeText(d) ==
    IF Capitalize(Get(d, "theme", "light")) \in ThemeItems
    THEN Capitalize(Get(d, "theme", "light"))
    ELSE "Light"
DialogAutoSaveText(d) ==
    IF Get(d, "autoSave", FALSE) = TRUE THEN "Enabled" ELSE "Disabled"
DialogIntervalText(d) == Str(Get(d, "autoSaveInterval", 5))

\* What accept() has assigned when int() raises: lines 124-126 only.
AcceptAssigned(d, apiKeyText, themeText, autoSaveText) ==
    SetItem(SetItem(SetItem(d, "apiKey", apiKeyText),
                    "theme", Lower(themeText)),
            "autoSave", autoSaveText = "Enabled")

\* SettingsDialog.accept with the four inputs as the user left them. The
\* dialog holds the same dict object as PyroAI.settings. An exception leaving
\* a slot either aborts the process (PyQt5 from 5.5 on, no excepthook) or is
\* printed and the event loop goes on: both outcomes are kept.
accept(apiKeyText, themeText, autoSaveText, intervalText) ==
    /\ appPc = "running"
    /\ LET d1 == AcceptAssigned(CurrentSettings, apiKeyText, themeText, autoSaveText)
           n == ParseInt(intervalText)
       IN  IF n.ok
           THEN LET d2 == SetItem(d1, "autoSaveInterval", n.value)
                IN  /\ WriteSettings(d2)
                    /\ store' = save_settings(d2)
                    /\ UNCHANGED appPc
           ELSE /\ WriteSettings(d1)
                /\ appPc' \in {"running", "crashed"}
                /\ UNCHANGED store
    /\ UNCHANGED <<settings, bootStore, loadResult>>

ApiKeyTexts == {"", "k1"}
IntervalTexts == {"5", " 15 ", "abc"}

\* The dialog accepted with any of the inputs of the model.
Accept ==
    /\ \E k \in ApiKeyTexts, th \in ThemeItems, a \in AutoSaveItems, i \in IntervalTexts :
          accept(k, th, a, i)
    /\ UNCHANGED chatVars

FontFamilies == {"Courier New", "Arial"}
FontSizes == {12, 14}

\* PyroAI.change_font: the font dialog returned (font, ok).
change_font(family, size, ok) ==
    /\ appPc = "running"
    /\ ok
    /\ LET d == SetItem(SetItem(CurrentSettings, "fontFamily", family),
                        "fontSize", size)
       IN  /\ WriteSettings(d)
           /\ store' = save_settings(d)
    /\ UNCHANGED <<settings, appPc, bootStore, loadResult>>

ChangeFont ==
    /\ \E f \in FontFamilies, s \in FontSizes : change_font(f, s, TRUE)
    /\ UNCHANGED chatVars

----------------------------------------------------------------------------
(* The chat bridge at rest *)

ChatIdle ==
    /\ workers = << >>
    /\ worker = 0
    /\ quitRequested = FALSE
    /\ sessionsCreated = 0
    /\ resetSeen = FALSE
    /\ overlapSeen = FALSE

\* The process as the entry point finds it, for a given settings file.
InitWith(st) ==
    /\ store = st
    /\ DEFAULT_SETTINGS = DefaultSettingsInit
    /\ loaded = EmptyDict
    /\ settings = None
    /\ appPc = "main_load"
    /\ bootStore = st
    /\ loadResult = [raised |-> None, ref |-> None, value |-> EmptyDict]
    /\ ChatIdle

----------------------------------------------------------------------------
(* The settings subsystem alone: any settings file, any commits *)

InitSettings == \E st \in Stores : InitWith(st)

NextSettings == MainLoad \/ InitLoad \/ Accept \/ ChangeFont

SpecSettings == InitSettings /\ [][NextSettings]_vars

----------------------------------------------------------------------------
(* Bounds of the chat model *)

\* Send clicks over one run of the application.
MaxSends == 2
\* Fragments a streamed reply holds at most.
MaxFragments == 2

----------------------------------------------------------------------------
(* The remote service, as Worker.run uses it *)

\* str(e) of an exception the service raises.
ServiceError == "503 Service Unavailable"

\* The message Worker.run emits for a key that is not set (line 61).
KeyNotSetMessage == "API key not set. Please configure in Settings."

\* str(e) of the AttributeError of None.send_message (line 71).
NoneTypeMessage == "'NoneType' object has no attribute 'send_message'"

\* The k-th fragment of a streamed reply, as a sequence of characters.
FragmentAt(k) ==
    CASE k = 1 -> <<"H", "e">>
      [] k = 2 -> <<"l">>
      [] k = 3 -> <<"l", "o">>
      [] OTHER -> <<"!">>

RECURSIVE Concat(_)
\* response.text: the aggregate of the fragments the stream delivered.
Concat(frags) ==
    IF frags = << >> THEN << >> ELSE Head(frags) \o Concat(Tail(frags))

----------------------------------------------------------------------------
(* Worker: the three signals and the thread's state *)

Progress(n) == [sig |-> "progress", n |-> n, text |-> << >>, msg |-> ""]
Finished(t) == [sig |-> "finished", n |-> 0, text |-> t, msg |-> ""]
Error(m) == [sig |-> "error", n |-> 0, text |-> << >>, msg |-> m]

\* Worker.__init__ followed by start(): chat is None, run() is about to begin.
\* PyroAI.send_message never passes image_path, so it stays None.
NewWorker(message, api_key) ==
    [message |-> message,
     api_key |-> api_key,
     chat |-> 0,
     pc |-> "run",
     i |-> 0,
     total_tokens |-> 0,
     received |-> << >>,
     events |-> << >>,
     calls |-> {},
     raisedAt |-> None]

\* The key check without its comparison to the placeholder.
KeyIsSetNoPlaceholder(k) == k # None /\ k # ""

\* Line 58: "self.api_key and self.api_key != DEFAULT_API_KEY_PLACEHOLDER".
KeyIsSet(k) == k # None /\ k # "" /\ k # DEFAULT_API_KEY_PLACEHOLDER

\* The counter as the bare index of enumerate.
ProgressValueIndex(i) == i

\* Line 75: self.progress.emit(i + 1).
ProgressValue(i) == i + 1

\* A handler that swallows the exception: "except Exception: pass".
OnExceptionSilent(wr, at, msg) ==
    [wr EXCEPT !.pc = "done", !.raisedAt = at]

\* Lines 79-80: "except Exception as e: self.error.emit(str(e))"; run() ends.
OnException(wr, at, msg) ==
    [wr EXCEPT !.events = Append(@, Error(msg)), !.pc = "done", !.raisedAt = at]

WorkerIds == 1..Len(workers)

\* Lines 57-62: the key check, then genai.configure, which may raise.
RunStart(w) ==
    /\ workers[w].pc = "run"
    /\ LET wr == workers[w]
       IN  IF KeyIsSet(wr.api_key)
           THEN \/ workers' = [workers EXCEPT ![w] =
                        [wr EXCEPT !.calls = @ \cup {"configure"}, !.pc = "session"]]
                \/ workers' = [workers EXCEPT ![w] =
                        OnException([wr EXCEPT !.calls = @ \cup {"configure"}],
                                    "configure", ServiceError)]
           ELSE workers' = [workers EXCEPT ![w] =
                    [wr EXCEPT !.events = Append(@, Error(KeyNotSetMessage)),
                               !.pc = "done"]]
    /\ UNCHANGED <<worker, quitRequested, sessionsCreated, resetSeen, overlapSeen>>

\* Lines 64-65: create the session when this worker has none. A session
\* object is named by the worker that created it.
RunSession(w) ==
    /\ workers[w].pc = "session"
    /\ LET wr == workers[w]
       IN  IF wr.chat = 0
           THEN \/ /\ sessionsCreated' = sessionsCreated + 1
                   /\ workers' = [workers EXCEPT ![w] =
                        [wr EXCEPT !.chat = w,
                                   !.calls = @ \cup {"start_chat"},
                                   !.pc = "send"]]
                \/ /\ workers' = [workers EXCEPT ![w] =
                        OnException([wr EXCEPT !.calls = @ \cup {"start_chat"}],
                                    "start_chat", ServiceError)]
                   /\ UNCHANGED sessionsCreated
           ELSE /\ workers' = [workers EXCEPT ![w] = [wr EXCEPT !.pc = "send"]]
                /\ UNCHANGED sessionsCreated
    /\ UNCHANGED <<worker, quitRequested, resetSeen, overlapSeen>>

\* Lines 67-71: self.chat is read again, then the message is submitted.
RunSend(w) ==
    /\ workers[w].pc = "send"
    /\ LET wr == workers[w]
       IN  IF wr.chat = 0
           THEN workers' = [workers EXCEPT ![w] =
                    OnException(wr, "attribute", NoneTypeMessage)]
           ELSE \/ workers' = [workers EXCEPT ![w] =
                        [wr EXCEPT !.calls = @ \cup {"send_message"}, !.pc = "stream"]]
                \/ workers' = [workers EXCEPT ![w] =
                        OnException([wr EXCEPT !.calls = @ \cup {"send_message"}],
                                    "send_message", ServiceError)]
    /\ UNCHANGED <<worker, quitRequested, sessionsCreated, resetSeen, overlapSeen>>

\* Lines 74-76, one turn of the loop: the stream yields its next fragment,
\* or raises.
RunChunk(w) ==
    /\ workers[w].pc = "stream"
    /\ LET wr == workers[w]
       IN  \/ /\ wr.i < MaxFragments
               /\ workers' = [workers EXCEPT ![w] =
                    [wr EXCEPT !.events = Append(@, Progress(ProgressValue(wr.i))),
                               !.received = Append(@, FragmentAt(wr.i + 1)),
                               !.i = @ + 1,
                               !.total_tokens = @ + 1]]
           \/ workers' = [workers EXCEPT ![w] =
                    OnException(wr, "stream", ServiceError)]
    /\ UNCHANGED <<worker, quitRequested, sessionsCreated, resetSeen, overlapSeen>>

\* Line 77, the stream being exhausted: response.text is emitted, or raises.
RunFinish(w) ==
    /\ workers[w].pc = "stream"
    /\ LET wr == workers[w]
       IN  \/ workers' = [workers EXCEPT ![w] =
                    [wr EXCEPT !.events = Append(@, Finished(Concat(wr.received))),
                               !.pc = "done"]]
           \/ workers' = [workers EXCEPT ![w] =
                    OnException(wr, "text", ServiceError)]
    /\ UNCHANGED <<worker, quitRequested, sessionsCreated, resetSeen, overlapSeen>>

----------------------------------------------------------------------------
(* The GUI thread *)

Messages == {"hi", "Quit"}

\* PyroAI.send_message with the text of the input field. QApplication.quit()
\* only asks the event loop to end: the handler goes on and starts the worker.
send_message(user_input) ==
    /\ appPc = "running"
    /\ ~quitRequested
    /\ Len(workers) < MaxSends
    /\ quitRequested' = (Lower(user_input) \in {"quit", "exit"})
    /\ LET api_key == Get(CurrentSettings, "apiKey", DEFAULT_API_KEY_PLACEHOLDER)
       IN  workers' = Append(workers, NewWorker(user_input, api_key))
    /\ worker' = Len(workers) + 1
    /\ overlapSeen' = (overlapSeen \/ \E w \in WorkerIds : workers[w].pc # "done")
    /\ UNCHANGED <<sessionsCreated, resetSeen>>

\* PyroAI.clear_chat: "if self.worker: self.worker.chat = None".
clear_chat ==
    /\ appPc = "running"
    /\ ~quitRequested
    /\ resetSeen' = TRUE
    /\ workers' = IF worker # 0
                  THEN [workers EXCEPT ![worker].chat = 0]
                  ELSE workers
    /\ UNCHANGED <<worker, quitRequested, sessionsCreated, overlapSeen>>

SendMessage ==
    /\ \E m \in Messages : send_message(m)
    /\ UNCHANGED settingsVars

ClearChat ==
    /\ clear_chat
    /\ UNCHANGED settingsVars

\* The settings dialog accepted with only the API key edited.
AcceptApiKey ==
    /\ ~quitRequested
    /\ \E k \in ApiKeyTexts :
          accept(k, DialogThemeText(CurrentSettings),
                 DialogAutoSaveText(CurrentSettings),
                 DialogIntervalText(CurrentSettings))
    /\ UNCHANGED chatVars

WorkerStart == (\E w \in WorkerIds : RunStart(w)) /\ UNCHANGED settingsVars
WorkerSession == (\E w \in WorkerIds : RunSession(w)) /\ UNCHANGED settingsVars
WorkerSend == (\E w \in WorkerIds : RunSend(w)) /\ UNCHANGED settingsVars
WorkerChunk == (\E w \in WorkerIds : RunChunk(w)) /\ UNCHANGED settingsVars
WorkerFinish == (\E w \in WorkerIds : RunFinish(w)) /\ UNCHANGED settingsVars

----------------------------------------------------------------------------
(* The application: a fresh install or a complete settings file *)

ChatStores == {AbsentStore, ObjectStore(StoredValue)}

Init == \E st \in ChatStores : InitWith(st)

Next ==
    \/ MainLoad
    \/ InitLoad
    \/ AcceptApiKey
    \/ SendMessage
    \/ ClearChat
    \/ WorkerStart
    \/ WorkerSession
    \/ WorkerSend
    \/ WorkerChunk
    \/ WorkerFinish

Spec == Init /\ [][Next]_vars

----------------------------------------------------------------------------
(* Properties of the chat bridge, under Spec *)

Terminals(wr) ==
    {j \in 1..Len(wr.events) : wr.events[j].sig \in {"finished", "error"}}

ProgressEvents(wr) ==
    {j \in 1..Len(wr.events) : wr.events[j].sig = "progress"}

\* C1: every send ends with exactly one terminal event (finished or error,
\* never both, never none once run() has ended), which is the last event of
\* that send, so no progress event follows it; a send whose stream raised
\* partway ends with an error event and no finished event.
C1_ExactlyOneTerminalEvent ==
    \A w \in WorkerIds :
        LET wr == workers[w]
        IN  /\ Cardinality(Terminals(wr)) <= 1
            /\ \A j \in Terminals(wr) : j = Len(wr.events)
            /\ (wr.pc = "done") <=> (Terminals(wr) # {})
            /\ wr.raisedAt = "stream" =>
                    /\ wr.pc = "done"
                    /\ wr.events[Len(wr.events)].sig = "error"
                    /\ \A j \in 1..Len(wr.events) : wr.events[j].sig # "finished"

\* C1 witness: a stream raised after its first fragment and the send ended
\* with the error event.
C1_Witness ==
    \E w \in WorkerIds :
        /\ workers[w].raisedAt = "stream"
        /\ workers[w].i >= 1
        /\ workers[w].pc = "done"
        /\ workers[w].events[Len(workers[w].events)].sig = "error"

\* The message the specification gives for a key that is not set.
ClaimedKeyMessage == "API key not set"

KeyRejected(wr) == wr.api_key \in {"", DEFAULT_API_KEY_PLACEHOLDER}

\* What C2 says of a send with an empty or placeholder key, for a given text
\* of the failure: no service call, no progress event, and once run() has
\* ended exactly one event, the error with that text.
KeyNotSetYields(text) ==
    \A w \in WorkerIds :
        LET wr == workers[w]
        IN  KeyRejected(wr) =>
                /\ wr.calls = {}
                /\ ProgressEvents(wr) = {}
                /\ wr.chat = 0
                /\ IF wr.pc = "done"
                   THEN wr.events = <<Error(text)>>
                   ELSE wr.events = << >>

\* C2 as stated: an empty or placeholder key yields Failure("API key not
\* set"), no progress event and no call to the remote service.
C2_AsStated == KeyNotSetYields(ClaimedKeyMessage)

\* C2 amended: an empty or placeholder key yields the error event with the
\* message "API key not set. Please configure in Settings.", no progress
\* event, and no call to the remote service (configure, start_chat,
\* send_message).
C2_KeyNotSet == KeyNotSetYields(KeyNotSetMessage)

\* C2 witness: a send with the placeholder key has ended, and so has one with
\* the empty key.
C2_Witness ==
    /\ \E w \in WorkerIds :
          workers[w].api_key = DEFAULT_API_KEY_PLACEHOLDER /\ workers[w].pc = "done"
    /\ \E w \in WorkerIds :
          workers[w].api_key = "" /\ workers[w].pc = "done"

Succeeded(wr) ==
    /\ wr.pc = "done"
    /\ wr.events # << >>
    /\ wr.events[Len(wr.events)].sig = "finished"

\* The reply of the service, and where its first n fragments end in it.
FullReply == <<"H", "e", "l", "l", "o", "!", "!", "!">>
FragmentEnd(n) ==
    CASE n = 0 -> 0
      [] n = 1 -> 2
      [] n = 2 -> 3
      [] OTHER -> n + 2

\* C3: a send that succeeds on a stream of N fragments emitted exactly N
\* progress events, carrying 1, 2, ..., N in that order, and then one
\* finished event whose text is the aggregate of the N fragments.
C3_ProgressThenCompletion ==
    \A w \in WorkerIds :
        LET wr == workers[w]
            N == Len(wr.received)
        IN  Succeeded(wr) =>
                /\ Len(wr.events) = N + 1
                /\ \A j \in 1..N : wr.events[j] = Progress(j)
                /\ wr.events[N + 1] = Finished(SubSeq(FullReply, 1, FragmentEnd(N)))

\* C3 witness: a send succeeded on a stream of two fragments.
C3_Witness ==
    \E w \in WorkerIds : Succeeded(workers[w]) /\ Len(workers[w].received) = 2

\* C4 as stated, already for sends issued one after the other: as long as no
\* reset happened and no send began while another was running, the sends of
\* the application created at most one session between them.
C4_SessionCreatedOnce ==
    (~resetSeen /\ ~overlapSeen) => sessionsCreated <= 1

InFlight == {w \in WorkerIds : workers[w].pc # "done"}

\* C5 as stated: never more than one worker is started and has not yet
\* emitted its terminal event.
C5_AtMostOneInFlight == Cardinality(InFlight) <= 1

\* C8 as stated: a reset does not alter an in-flight send, so every error
\* event is one the send produces without a reset: the rejected key, or an
\* exception of the remote service.
C8_ResetKeepsTerminalEvent ==
    \A w \in WorkerIds :
        \A j \in 1..Len(workers[w].events) :
            workers[w].events[j].sig = "error" =>
                workers[w].events[j].msg \in {KeyNotSetMessage, ServiceError}

----------------------------------------------------------------------------
(* Properties of the settings store, under SpecSettings *)

Loaded == appPc # "main_load"

\* C6: for a settings file that is a JSON object missing one or more default
\* keys, load_settings returns a mapping holding every default key, with the
\* stored value for each key in the file and the default for each other key.
C6_LoadBackfills ==
    (Loaded /\ bootStore.kind = "object" /\ Keys \ (DOMAIN bootStore.data) # {}) =>
        /\ loadResult.raised = None
        /\ Keys \subseteq DOMAIN loadResult.value
        /\ \A k \in DOMAIN bootStore.data : loadResult.value[k] = bootStore.data[k]
        /\ \A k \in Keys \ (DOMAIN bootStore.data) :
                loadResult.value[k] = DefaultSettingsInit[k]

\* C6 witness: the application runs on a file that held only the key and the
\* theme.
C6_Witness ==
    /\ appPc = "running"
    /\ bootStore.kind = "object"
    /\ DOMAIN bootStore.data = {"apiKey", "theme"}
    /\ loadResult.value["apiKey"] = "k1"
    /\ loadResult.value["fontSize"] = 12

C9_CommitAllOrNothing ==
    [][appPc = "running" =>
          \/ CurrentSettings' = CurrentSettings /\ store' = store
          \/ store' = save_settings(CurrentSettings')]_vars

\* C10 as stated: DEFAULT_SETTINGS keeps the values it was given at import.
C10_DefaultsConstant == DEFAULT_SETTINGS = DefaultSettingsInit

====
